---- MODULE Spec2Model ----
(***************************************************************************)
(* Flight-price alert bot (src/main.py): the provider client               *)
(* fetch_flights, the date-range search search_range, the alert store      *)
(* (add_alert, get_alerts, delete_alert, cleanup_expired_alerts), the      *)
(* /alert and /cancel handlers and the background loop monitor_alerts.     *)
(*                                                                         *)
(* Calendar days are day ordinals.  A date string is the sequence of the   *)
(* decimal digits of the ordinal, zero padded to IsoWidth digits, the way  *)
(* date.isoformat() pads year, month and day to fixed widths.              *)
(***************************************************************************)
EXTENDS Integers, Sequences, FiniteSets, TLC

\* ------------------------------------------------------------------ bounds
MaxQuotes == 2      \* quotes in one provider response
MaxAlerts == 2      \* /alert commands accepted over a run
FirstDay == 9       \* the first day of a run; the clock runs to FirstDay + 2

\* ------------------------------------------------------- program constants
Retries == 3                 \* fetch_flights(..., retries=3)
MaxRangeDays == 30           \* alert_cmd: (end_date - start_date).days > 30
MaxAdults == 9               \* alert_cmd: adults > 9
MaxThreshold == 1000000      \* alert_cmd: threshold > 1000000
MaxNotify == 3               \* monitor_alerts: matching_flights[:3]
max_consecutive_errors == 5  \* monitor_alerts
IsoWidth == 2                \* digits of a date string
MaxShown == 5                \* handle_calendar_done: sorted(...)[:5]
NoPriceRank == 999999        \* handle_calendar_done: x.get("price", 999999)

\* ---------------------------------------------------------------- quotes
\* f.get("price") of a quote without a price
NoPrice == -1
\* a provider quote carries no search_date until search_range tags it
NoDate == <<>>

\* the prices a provider quote can carry, around the threshold of the alerts
\* of the model: none, zero, the threshold itself, above it
PriceAt == 5000
Prices == {NoPrice, 0, PriceAt, PriceAt + 1}

Quote(p, d) == [price |-> p, search_date |-> d]

RECURSIVE SeqsUpTo(_, _)
SeqsUpTo(S, n) ==
    IF n = 0 THEN {<<>>}
    ELSE LET shorter == SeqsUpTo(S, n - 1)
         IN  shorter \cup {Append(s, x) : s \in {t \in shorter : Len(t) = n - 1}, x \in S}

\* the "data" arrays the provider can answer with
FlightLists == SeqsUpTo({Quote(p, NoDate) : p \in Prices}, MaxQuotes)

\* ------------------------------------------------------------ fetch_flights
\* One attempt's outcome: the HTTP status with the parsed body, a timeout, or
\* any other exception (transport failure, resp.json() or .get failing).
HttpOk(data) == [kind |-> "http", status |-> 200, data |-> data]
HttpStatus(s) == [kind |-> "http", status |-> s, data |-> <<>>]
Timeout == [kind |-> "timeout", status |-> 0, data |-> <<>>]
OtherError == [kind |-> "exception", status |-> 0, data |-> <<>>]
\* a 200 response whose body resp.json() cannot parse, or whose JSON has no
\* .get: the exception is raised inside the try, after the status test
BadBody == [kind |-> "exception", status |-> 200, data |-> <<>>]

Outcomes ==
    {HttpOk(d) : d \in FlightLists}
        \cup {HttpStatus(429), HttpStatus(500), HttpStatus(404), Timeout, OtherError,
              BadBody}

Pow2(n) == 2 ^ n

\* state of one call: the loop variable, the GETs issued, the sleeps taken,
\* and how the call ended
FetchStart ==
    [attempt |-> 0, pc |-> "running", result |-> <<>>, gets |-> 0, waits |-> <<>>]

\* end of one loop iteration that neither returned nor raised
FetchNext(s, waits) ==
    IF s.attempt + 1 < Retries
    THEN [s EXCEPT !.attempt = @ + 1, !.gets = @ + 1, !.waits = waits]
    ELSE [s EXCEPT !.attempt = @ + 1, !.gets = @ + 1, !.waits = waits,
                   !.pc = "returned", !.result = <<>>]

FetchStepNoCatch(s, o) ==
    IF o.kind = "http" /\ o.status = 200
    THEN [s EXCEPT !.gets = @ + 1, !.pc = "returned", !.result = o.data]
    ELSE IF o.kind = "http" /\ o.status = 429
    THEN FetchNext(s, Append(s.waits, Pow2(s.attempt)))
    ELSE IF o.kind = "http"
    THEN [s EXCEPT !.gets = @ + 1, !.pc = "returned", !.result = <<>>]
    ELSE IF o.kind = "timeout"
    THEN FetchNext(s, IF s.attempt < Retries - 1
                      THEN Append(s.waits, Pow2(s.attempt)) ELSE s.waits)
    ELSE [s EXCEPT !.gets = @ + 1, !.pc = "raised"]

FetchStepDropsData(s, o) ==
    IF o.kind = "http" /\ o.status = 200
    THEN [s EXCEPT !.gets = @ + 1, !.pc = "returned", !.result = <<>>]
    ELSE IF o.kind = "http" /\ o.status = 429
    THEN FetchNext(s, Append(s.waits, Pow2(s.attempt)))
    ELSE IF o.kind = "http"
    THEN [s EXCEPT !.gets = @ + 1, !.pc = "returned", !.result = <<>>]
    ELSE FetchNext(s, IF s.attempt < Retries - 1
                      THEN Append(s.waits, Pow2(s.attempt)) ELSE s.waits)

FetchStepGiveUpOnTimeout(s, o) ==
    IF o.kind = "http" /\ o.status = 200
    THEN [s EXCEPT !.gets = @ + 1, !.pc = "returned", !.result = o.data]
    ELSE IF o.kind = "http" /\ o.status = 429
    THEN FetchNext(s, Append(s.waits, Pow2(s.attempt)))
    ELSE [s EXCEPT !.gets = @ + 1, !.pc = "returned", !.result = <<>>]

\* one iteration of `for attempt in range(retries)`
FetchStep(s, o) ==
    IF o.kind = "http" /\ o.status = 200
    THEN [s EXCEPT !.gets = @ + 1, !.pc = "returned", !.result = o.data]
    ELSE IF o.kind = "http" /\ o.status = 429
    THEN FetchNext(s, Append(s.waits, Pow2(s.attempt)))
    ELSE IF o.kind = "http"
    THEN [s EXCEPT !.gets = @ + 1, !.pc = "returned", !.result = <<>>]
    ELSE FetchNext(s, IF s.attempt < Retries - 1
                      THEN Append(s.waits, Pow2(s.attempt)) ELSE s.waits)

\* a whole call, over the outcomes of its attempts
RECURSIVE FetchRun(_, _)
FetchRun(s, outs) ==
    IF s.pc # "running" \/ outs = <<>> THEN s
    ELSE FetchRun(FetchStep(s, Head(outs)), Tail(outs))

\* the outcomes after which the loop goes on, and the complete runs of a call
Retryable == {o \in Outcomes : FetchStep(FetchStart, o).pc = "running"}

FetchRuns ==
    {r \in SeqsUpTo(Retryable, Retries)
            \cup {Append(p, t) : p \in SeqsUpTo(Retryable, Retries - 1),
                                 t \in Outcomes \ Retryable} :
        FetchRun(FetchStart, r).pc # "running"}

\* how a call can end, as its caller sees it
FetchEnds ==
    {[pc |-> FetchRun(FetchStart, r).pc, result |-> FetchRun(FetchStart, r).result] :
        r \in FetchRuns}

\* ------------------------------------------------------------------- text
\* A text is a sequence of one-character strings.
DigitChars == <<"0", "1", "2", "3", "4", "5", "6", "7", "8", "9">>

IsDigit(c) == \E n \in 1 .. 10 : DigitChars[n] = c
DigitVal(c) == (CHOOSE n \in 1 .. 10 : DigitChars[n] = c) - 1
AllDigits(t) == \A i \in 1 .. Len(t) : IsDigit(t[i])

RECURSIVE Decimal(_)
Decimal(t) ==
    IF t = <<>> THEN 0
    ELSE 10 * Decimal(SubSeq(t, 1, Len(t) - 1)) + DigitVal(t[Len(t)])

\* ------------------------------------------------------------------ dates
\* date.isoformat() / str(date): fixed-width, zero-padded decimal
RECURSIVE Padded(_, _)
Padded(n, width) ==
    IF width = 0 THEN <<>>
    ELSE Append(Padded(n \div 10, width - 1), DigitChars[(n % 10) + 1])

IsoFormat(d) == Padded(d, IsoWidth)

\* ------------------------------------------------------------ search_range
TagFlights(flights, day) ==
    [i \in 1 .. Len(flights) |-> [flights[i] EXCEPT !.search_date = IsoFormat(day)]]

SearchStartDoWhile(start_date, end_date) ==
    [start_date |-> start_date, end_date |-> end_date, current_date |-> start_date,
     results |-> <<>>, calls |-> <<>>, counts |-> <<>>, sleeps |-> 0,
     trace |-> <<>>,
     pc |-> "running"]

\* entry of search_range, up to the first test of the loop condition.  calls
\* and counts record the date of every fetch_flights call and how many quotes
\* it returned; sleeps counts the pacing sleeps; trace is the order in which
\* the calls and the sleeps were made.
SearchStart(start_date, end_date) ==
    [start_date |-> start_date, end_date |-> end_date, current_date |-> start_date,
     results |-> <<>>, calls |-> <<>>, counts |-> <<>>, sleeps |-> 0,
     trace |-> <<>>,
     pc |-> IF start_date <= end_date THEN "running" ELSE "returned"]

SearchAdvanceSleepIfFound(s, flights, day, step) ==
    [s EXCEPT !.results = @ \o TagFlights(flights, day),
              !.calls = Append(@, IsoFormat(s.current_date)),
              !.counts = Append(@, Len(flights)),
              !.sleeps = IF flights = <<>> THEN @ ELSE @ + 1,
              !.trace = IF flights = <<>> THEN Append(@, "fetch")
                        ELSE @ \o <<"fetch", "sleep">>,
              !.current_date = @ + step,
              !.pc = IF s.current_date + step <= s.end_date
                     THEN "running" ELSE "returned"]

\* the body of the loop: the call, the tagging, the pacing sleep, the next day
SearchAdvance(s, flights, day, step) ==
    [s EXCEPT !.results = @ \o TagFlights(flights, day),
              !.calls = Append(@, IsoFormat(s.current_date)),
              !.counts = Append(@, Len(flights)),
              !.sleeps = @ + 1,
              !.trace = @ \o <<"fetch", "sleep">>,
              !.current_date = @ + step,
              !.pc = IF s.current_date + step <= s.end_date
                     THEN "running" ELSE "returned"]

SearchStepSkipDay(s, f) == SearchAdvance(s, f.result, s.current_date, 2)

\* one iteration of `while current_date <= end_date`, f being the finished call
\* of fetch_flights for current_date
SearchStep(s, f) ==
    IF f.pc = "raised" THEN [s EXCEPT !.pc = "raised"]
    ELSE SearchAdvance(s, f.result, s.current_date, 1)

\* ---------------------------------------------------- parsing of user text
Upper(c) ==
    CASE c = "m" -> "M" [] c = "o" -> "O" [] c = "w" -> "W"
      [] c = "l" -> "L" [] c = "e" -> "E" [] c = "d" -> "D"
      [] OTHER -> c

UpperText(t) == [i \in 1 .. Len(t) |-> Upper(t[i])]

\* str.strip()
RECURSIVE Strip(_)
Strip(t) ==
    IF t = <<>> THEN t
    ELSE IF Head(t) = " " THEN Strip(Tail(t))
    ELSE IF t[Len(t)] = " " THEN Strip(SubSeq(t, 1, Len(t) - 1))
    ELSE t

\* validate_airport_code returns None for a rejected code
NoCode == <<>>

validate_airport_code(code) ==
    IF code = <<>> \/ Len(Strip(code)) # 3 THEN NoCode ELSE UpperText(Strip(code))

\* int(text): an optional sign and decimal digits, ValueError otherwise
IntParse(t) ==
    LET signed == t # <<>> /\ Head(t) \in {"-", "+"}
        digits == IF signed THEN Tail(t) ELSE t
    IN  IF digits # <<>> /\ AllDigits(digits)
        THEN [ok |-> TRUE,
              val |-> IF signed /\ Head(t) = "-" THEN 0 - Decimal(digits) ELSE Decimal(digits)]
        ELSE [ok |-> FALSE, val |-> 0]

\* isoparse(text).date(): a date string, or a date string followed by "T" and a
\* time of day; ValueError otherwise
IsoParse(t) ==
    IF /\ Len(t) >= IsoWidth
       /\ AllDigits(SubSeq(t, 1, IsoWidth))
       /\ (Len(t) = IsoWidth \/ t[IsoWidth + 1] = "T")
    THEN [ok |-> TRUE, day |-> Decimal(SubSeq(t, 1, IsoWidth))]
    ELSE [ok |-> FALSE, day |-> 0]

\* comparison of TEXT values in SQLite: byte by byte, a proper prefix first
CharOrd(c) == IF IsDigit(c) THEN DigitVal(c) ELSE 10

RECURSIVE StrLess(_, _)
StrLess(a, b) ==
    IF b = <<>> THEN FALSE
    ELSE IF a = <<>> THEN TRUE
    ELSE IF CharOrd(Head(a)) # CharOrd(Head(b)) THEN CharOrd(Head(a)) < CharOrd(Head(b))
    ELSE StrLess(Tail(a), Tail(b))

\* ------------------------------------------------------------ the alert store
\* a row of table alerts (created_at is never read)
Row(id, user_id, origin, destination, start_date, end_date, adults, threshold) ==
    [id |-> id, user_id |-> user_id, origin |-> origin, destination |-> destination,
     start_date |-> start_date, end_date |-> end_date, adults |-> adults,
     threshold |-> threshold]

\* INSERT INTO alerts: id INTEGER PRIMARY KEY AUTOINCREMENT takes the successor
\* of the largest id ever assigned, which sqlite_sequence keeps
\* the largest id in the table
RECURSIVE MaxId(_)
MaxId(rows) ==
    IF rows = <<>> THEN 0
    ELSE IF Head(rows).id >= MaxId(Tail(rows)) THEN Head(rows).id ELSE MaxId(Tail(rows))

InsertRowNoAutoincrement(rows, lastId, user_id, a) ==
    Append(rows, Row(MaxId(rows) + 1, user_id, a.origin, a.destination,
                     a.start_date, a.end_date, a.adults, a.threshold))

InsertRowOverwritesFirst(rows, lastId, user_id, a) ==
    IF rows = <<>>
    THEN <<Row(lastId + 1, user_id, a.origin, a.destination,
               a.start_date, a.end_date, a.adults, a.threshold)>>
    ELSE [rows EXCEPT ![1] = Row(rows[1].id, user_id, a.origin, a.destination,
                                 a.start_date, a.end_date, a.adults, a.threshold)]

\* INSERT INTO alerts: with AUTOINCREMENT the id is one more than the largest
\* id ever assigned, which sqlite_sequence keeps
InsertRow(rows, lastId, user_id, a) ==
    Append(rows, Row(lastId + 1, user_id, a.origin, a.destination,
                     a.start_date, a.end_date, a.adults, a.threshold))

DeleteWhereId(rows, alert_id, user_id) ==
    SelectSeq(rows, LAMBDA r : ~(r.id = alert_id))

\* DELETE FROM alerts WHERE id = ? AND user_id = ?
DeleteWhere(rows, alert_id, user_id) ==
    SelectSeq(rows, LAMBDA r : ~(r.id = alert_id /\ r.user_id = user_id))

\* delete_alert: the rows left and the value returned; a failing database
\* (dbOk false) is logged and answered with False
delete_alert(rows, alert_id, user_id, dbOk) ==
    IF dbOk
    THEN [rows |-> DeleteWhere(rows, alert_id, user_id),
          ret |-> Len(DeleteWhere(rows, alert_id, user_id)) < Len(rows)]
    ELSE [rows |-> rows, ret |-> FALSE]

DeleteExpiredInclusive(rows, todayText) ==
    SelectSeq(rows, LAMBDA r : StrLess(todayText, r.end_date))

\* DELETE FROM alerts WHERE end_date < ?, with today's date string
DeleteExpired(rows, todayText) ==
    SelectSeq(rows, LAMBDA r : ~StrLess(r.end_date, todayText))

cleanup_expired_alerts_after_listing(rows, day, dbOk) == rows

\* cleanup_expired_alerts: a failing database is logged and swallowed
cleanup_expired_alerts(rows, day, dbOk) ==
    IF dbOk THEN DeleteExpired(rows, IsoFormat(day)) ELSE rows

get_alerts_oldest_only(rows, dbOk) ==
    IF dbOk THEN (IF Len(rows) > 1 THEN <<rows[1]>> ELSE rows) ELSE <<>>

\* get_alerts: SELECT ... FROM alerts; a failing database yields []
get_alerts(rows, dbOk) == IF dbOk THEN rows ELSE <<>>

user_alerts_all(alerts, user_id) == alerts

\* user_alerts = [a for a in alerts if a[1] == user_id]
user_alerts(alerts, user_id) == SelectSeq(alerts, LAMBDA a : a.user_id = user_id)

\* ---------------------------------------------------------------- alert_cmd
Rejected(error) ==
    [ok |-> FALSE, error |-> error, origin |-> NoCode, destination |-> NoCode,
     start_date |-> <<>>, end_date |-> <<>>, adults |-> 0, threshold |-> 0]

\* the checks on the dates and the price, and the arguments of add_alert
AlertDatesAndPriceNoPastCheck(origin, destination, d1, d2, adults, thresholdText, day) ==
    IF ~(IsoParse(d1).ok /\ IsoParse(d2).ok) THEN Rejected("date format")
    ELSE IF IsoParse(d2).day < IsoParse(d1).day THEN Rejected("end before start")
    ELSE IF IsoParse(d2).day - IsoParse(d1).day > MaxRangeDays THEN Rejected("range")
    ELSE IF ~IntParse(thresholdText).ok THEN Rejected("value")
    ELSE IF IntParse(thresholdText).val <= 0 THEN Rejected("price not positive")
    ELSE IF IntParse(thresholdText).val > MaxThreshold THEN Rejected("price too high")
    ELSE [ok |-> TRUE, error |-> "", origin |-> origin, destination |-> destination,
          start_date |-> IsoFormat(IsoParse(d1).day),
          end_date |-> IsoFormat(IsoParse(d2).day),
          adults |-> adults, threshold |-> IntParse(thresholdText).val]

AlertDatesAndPrice(origin, destination, d1, d2, adults, thresholdText, day) ==
    IF ~(IsoParse(d1).ok /\ IsoParse(d2).ok) THEN Rejected("date format")
    ELSE IF IsoParse(d1).day < day THEN Rejected("start in the past")
    ELSE IF IsoParse(d2).day < IsoParse(d1).day THEN Rejected("end before start")
    ELSE IF IsoParse(d2).day - IsoParse(d1).day > MaxRangeDays THEN Rejected("range")
    ELSE IF ~IntParse(thresholdText).ok THEN Rejected("value")
    ELSE IF IntParse(thresholdText).val <= 0 THEN Rejected("price not positive")
    ELSE IF IntParse(thresholdText).val > MaxThreshold THEN Rejected("price too high")
    ELSE [ok |-> TRUE, error |-> "", origin |-> origin, destination |-> destination,
          start_date |-> IsoFormat(IsoParse(d1).day),
          end_date |-> IsoFormat(IsoParse(d2).day),
          adults |-> adults, threshold |-> IntParse(thresholdText).val]

\* the checks on the airport codes
AlertRoute(o, d, d1, d2, adults, thresholdText, day) ==
    IF validate_airport_code(o) = NoCode \/ validate_airport_code(d) = NoCode
    THEN Rejected("airport code")
    ELSE IF validate_airport_code(o) = validate_airport_code(d)
    THEN Rejected("same airport")
    ELSE AlertDatesAndPrice(validate_airport_code(o), validate_airport_code(d),
                            d1, d2, adults, thresholdText, day)

\* alert_cmd up to the call of add_alert: parts is message.text.split(), day is
\* datetime.now().date()
AlertRequest(parts, day) ==
    IF Len(parts) \notin {6, 7} THEN Rejected("parameter count")
    ELSE IF Len(parts) = 6
    THEN AlertRoute(parts[2], parts[3], parts[4], parts[5], 1, parts[6], day)
    ELSE IF ~IntParse(parts[6]).ok THEN Rejected("value")
    ELSE IF IntParse(parts[6]).val < 1 \/ IntParse(parts[6]).val > MaxAdults
    THEN Rejected("adults")
    ELSE AlertRoute(parts[2], parts[3], parts[4], parts[5],
                    IntParse(parts[6]).val, parts[7], day)

\* --------------------------------------------------------------- cancel_cmd
\* cancel_cmd up to the call of delete_alert
CancelRequest(parts) ==
    IF Len(parts) # 2 \/ ~IntParse(parts[2]).ok
    THEN [ok |-> FALSE, alert_id |-> 0]
    ELSE [ok |-> TRUE, alert_id |-> IntParse(parts[2]).val]

\* ----------------------------------------------------------- monitor_alerts
Max(a, b) == IF a >= b THEN a ELSE b
Min(a, b) == IF a <= b THEN a ELSE b

\* `if price`: None and 0 are falsy
Truthy(price) == price # NoPrice /\ price # 0

MatchingFlightsStrict(flights, threshold) ==
    SelectSeq(flights, LAMBDA f : Truthy(f.price) /\ f.price < threshold)

\* matching_flights: the quotes with `price and price <= threshold`
MatchingFlights(flights, threshold) ==
    SelectSeq(flights, LAMBDA f : Truthy(f.price) /\ f.price <= threshold)

AlertWindowFromStart(alert, day) ==
    [parsed |-> IsoParse(alert.start_date).ok /\ IsoParse(alert.end_date).ok,
     expired |-> IsoParse(alert.end_date).day < day,
     search_start |-> IsoParse(alert.start_date).day,
     end_date |-> IsoParse(alert.end_date).day]

\* the dates of an alert and the window searched for it on day `day`
AlertWindow(alert, day) ==
    [parsed |-> IsoParse(alert.start_date).ok /\ IsoParse(alert.end_date).ok,
     expired |-> IsoParse(alert.end_date).day < day,
     search_start |-> Max(IsoParse(alert.start_date).day, day),
     end_date |-> IsoParse(alert.end_date).day]

\* what bot.send_message can do: deliver, fail for now, or report that the
\* user blocked the bot or deleted the account
SendOutcomes == {"sent", "transient", "forbidden"}

\* the monitor at the top of its loop.  Besides the locals of monitor_alerts it
\* notes what the cycle has been through: the day its sweep read, whether the
\* DELETE of the sweep ran, what the last step ran into, and the calls of
\* bot.send_message made for alerts[i]
MonitorStart(errors) ==
    [pc |-> "sweep", alerts |-> <<>>, i |-> 0, matching_flights |-> <<>>, k |-> 0,
     consecutive_errors |-> errors, cycle_day |-> 0, swept |-> FALSE, last |-> "",
     sends |-> 0]

NextAlertKeepsCount(m) ==
    IF m.i < Len(m.alerts)
    THEN [m EXCEPT !.pc = "check", !.i = @ + 1, !.matching_flights = <<>>, !.k = 0,
                   !.last = "", !.sends = 0]
    ELSE [MonitorStart(m.consecutive_errors) EXCEPT !.pc = "sleep"]

\* the end of the body of `for alert in alerts`: the next alert, or the end of
\* the cycle with consecutive_errors = 0
NextAlert(m) ==
    IF m.i < Len(m.alerts)
    THEN [m EXCEPT !.pc = "check", !.i = @ + 1, !.matching_flights = <<>>, !.k = 0,
                   !.last = "", !.sends = 0]
    ELSE [MonitorStart(0) EXCEPT !.pc = "sleep"]

SelectedAll(matching_flights) == matching_flights

\* matching_flights[:3]
Selected(matching_flights) ==
    SubSeq(matching_flights, 1, Min(Len(matching_flights), MaxNotify))

InnerExceptAbortsCycle(m) ==
    [MonitorStart(m.consecutive_errors + 1) EXCEPT !.pc = "sleep", !.last = "raised"]

\* except Exception as alert_error: log, continue
InnerExcept(m) == [NextAlert(m) EXCEPT !.last = "raised"]

OuterExceptRaises(m) ==
    [MonitorStart(m.consecutive_errors + 1) EXCEPT !.pc = "crashed"]

\* except Exception as e: count the failure; on the 5th in a row the extended
\* sleep lies ahead (pc backoff), otherwise the sleep at the foot of the loop
OuterExcept(m) ==
    IF m.consecutive_errors + 1 >= max_consecutive_errors
    THEN [MonitorStart(m.consecutive_errors + 1)
             EXCEPT !.pc = "backoff", !.last = "cycle_error"]
    ELSE [MonitorStart(m.consecutive_errors + 1)
             EXCEPT !.pc = "sleep", !.last = "cycle_error"]

AfterBackoffNoContinue(m) == [MonitorStart(0) EXCEPT !.pc = "sleep"]

\* after the extended sleep: consecutive_errors = 0 and `continue`
AfterBackoff(m) == MonitorStart(0)

\* ------------------------------------------------------ the search dialogue
\* The FSM state and data of a user (state, origin, destination,
\* selected_dates), and the search of handle_calendar_done: where it is, the
\* origin and destination it passed to search_range, the call of search_range,
\* and what it showed in the end.  seen holds the keyboards the bot has sent
\* the user so far: the airports of origin, those of destination, the
\* calendar, the calendar with its button "done".
DialogStart ==
    [state |-> "none", origin |-> NoCode, destination |-> NoCode, selected_dates |-> <<>>,
     seen |-> {},
     pc |-> "idle", route |-> <<NoCode, NoCode>>, search |-> SearchStart(1, 0),
     answer |-> "", shown |-> <<>>]

\* state.clear()
clear(d) ==
    [d EXCEPT !.state = "none", !.origin = NoCode, !.destination = NoCode,
              !.selected_dates = <<>>]

\* start_search_callback and search_cmd: the data of an earlier dialogue stays
start_search_callback(d) == [d EXCEPT !.state = "origin", !.seen = @ \cup {"orig"}]

\* handle_origin_selection on the button of an airport
handle_origin_selection(d, code) ==
    [d EXCEPT !.origin = code, !.state = "destination", !.seen = @ \cup {"dest"}]

\* handle_origin_text, which runs in state origin only
handle_origin_text(d, text) ==
    IF validate_airport_code(text) = NoCode THEN d
    ELSE [d EXCEPT !.origin = validate_airport_code(text), !.state = "destination",
                   !.seen = @ \cup {"dest"}]

\* handle_destination_selection on the button of an airport
handle_destination_selection(d, code) ==
    IF d.origin # NoCode /\ code = d.origin THEN d
    ELSE [d EXCEPT !.destination = code, !.selected_dates = <<>>, !.state = "date1",
                   !.seen = @ \cup {"cal"}]

\* handle_destination_text, which runs in state destination only
handle_destination_text(d, text) ==
    IF validate_airport_code(text) = NoCode THEN d
    ELSE IF validate_airport_code(text) = d.origin THEN d
    ELSE [d EXCEPT !.destination = validate_airport_code(text),
                   !.selected_dates = <<>>, !.state = "date1", !.seen = @ \cup {"cal"}]

\* list.sort() of dates
RECURSIVE SortDays(_)
SortDays(days) ==
    IF days = <<>> THEN <<>>
    ELSE LET rest == SortDays(Tail(days))
         IN  SelectSeq(rest, LAMBDA x : x < Head(days)) \o <<Head(days)>>
                \o SelectSeq(rest, LAMBDA x : x >= Head(days))

\* handle_date_selection: a selected date is taken out, another is put in,
\* and of three dates the two earliest are kept
handle_date_selection(d, day) ==
    IF \E j \in 1 .. Len(d.selected_dates) : d.selected_dates[j] = day
    THEN [d EXCEPT !.selected_dates = SelectSeq(@, LAMBDA x : x # day)]
    ELSE [d EXCEPT !.selected_dates =
                      SubSeq(SortDays(Append(@, day)), 1, Min(Len(@) + 1, 2)),
                   !.seen = IF Len(d.selected_dates) >= 1 THEN @ \cup {"done"} ELSE @]

\* handle_calendar_done up to the call of search_range
handle_calendar_done(d) ==
    IF Len(d.selected_dates) < 2 THEN d
    ELSE [clear(d) EXCEPT !.pc = "searching",
                          !.route = <<d.origin, d.destination>>,
                          !.search = SearchStart(SortDays(d.selected_dates)[1],
                                                 SortDays(d.selected_dates)[2]),
                          !.answer = "", !.shown = <<>>]

\* cancel_search
cancel_search(d) == clear(d)

\* "price": null in the provider's data, which x.get("price", 999999) returns
\* as None
NullPrice == -2

\* the sort key x.get("price", 999999)
PriceKey(f) == IF f.price = NoPrice THEN NoPriceRank ELSE f.price

\* sorted(flights, key=...): stable, ascending
RECURSIVE SortedByPrice(_)
SortedByPrice(flights) ==
    IF flights = <<>> THEN <<>>
    ELSE LET rest == SortedByPrice(Tail(flights))
         IN  SelectSeq(rest, LAMBDA x : PriceKey(x) < PriceKey(Head(flights)))
                \o <<Head(flights)>>
                \o SelectSeq(rest, LAMBDA x : PriceKey(x) >= PriceKey(Head(flights)))

\* sorted raises TypeError as soon as it compares None with anything
SortRaises(flights) ==
    Len(flights) >= 2 /\ \E j \in 1 .. Len(flights) : flights[j].price = NullPrice

\* handle_calendar_done after search_range: the message it shows
ShowResults(d) ==
    IF d.search.pc = "raised" \/ SortRaises(d.search.results)
    THEN [d EXCEPT !.pc = "idle", !.answer = "error", !.shown = <<>>]
    ELSE IF d.search.results = <<>>
    THEN [d EXCEPT !.pc = "idle", !.answer = "empty", !.shown = <<>>]
    ELSE [d EXCEPT !.pc = "idle", !.answer = "results",
                   !.shown = SubSeq(SortedByPrice(d.search.results), 1,
                                    Min(Len(d.search.results), MaxShown))]

\* --------------------------------------------------------- the pacing delay
\* Time in ticks, RateLimitTicks of them to RATE_LIMIT_MS.  gap is the time
\* since the last call of the provider (no longer counted once it reaches
\* the pacing delay), monitor and dialog are what is left of the pacing sleep
\* of each coroutine's search_range, early says whether a call was made
\* sooner than the pacing delay after the call before it.
RateLimitTicks == 2

WireStart == [called |-> FALSE, gap |-> 0, monitor |-> 0, dialog |-> 0, early |-> FALSE]

\* client.get of coroutine who, followed by its asyncio.sleep(RATE_LIMIT_MS / 1000)
WireCall(w, who) ==
    [w EXCEPT !.early = @ \/ (w.called /\ w.gap < RateLimitTicks),
              !.called = TRUE, !.gap = 0, ![who] = RateLimitTicks]

\* one tick passes
WireTime(w) ==
    [w EXCEPT !.gap = Min(@ + 1, RateLimitTicks),
              !.monitor = Max(@ - 1, 0), !.dialog = Max(@ - 1, 0)]

\* ============================================================== the state
VARIABLES
    fetch,      \* the call of fetch_flights under way
    outcomes,   \* the outcomes of its attempts so far
    search,     \* the call of search_range under way
    db,         \* table alerts, in rowid order
    seq,        \* sqlite_sequence: the largest id ever assigned
    today,      \* datetime.now().date()
    reply,      \* what the handler that ran in this step answered
    mon,        \* monitor_alerts: its position and its local variables
    blocked,    \* the alerts a send for which failed for good, so far
    notified,   \* the quotes delivered so far, each with the alert it was for
    dialog,     \* the search dialogue of a user and its search
    wire,       \* the timing of the calls of the provider
    txn         \* the write transaction open on the database file, if any

vars == <<fetch, outcomes, search, db, seq, today, reply, mon, blocked, notified,
          dialog, wire, txn>>

Users == {1, 2}
LastDay == FirstDay + 2

NoReply ==
    [op |-> "none", user |-> 0, parts |-> <<>>, day |-> 0, ok |-> FALSE, error |-> "",
     id |-> 0, fault |-> FALSE, items |-> <<>>]

FetchIdle == fetch = FetchStart /\ outcomes = <<>>
SearchIdle == search = SearchStart(1, 0)
StoreIdle == db = <<>> /\ seq = 0 /\ today = FirstDay /\ reply = NoReply
MonitorIdle == mon = MonitorStart(0) /\ blocked = {} /\ notified = {}
\* no write transaction is open
NoTxn == {}

DialogIdle == dialog = DialogStart
WireIdle == wire = WireStart
TxnIdle == txn = NoTxn

\* ------------------------------------------------- fetch_flights on its own
InitFetch ==
    /\ fetch = FetchStart
    /\ outcomes = <<>>
    /\ SearchIdle
    /\ StoreIdle
    /\ MonitorIdle
    /\ DialogIdle
    /\ WireIdle
    /\ TxnIdle

\* fetch_flights makes one more attempt, which ends with outcome o
FetchAttempt ==
    /\ fetch.pc = "running"
    /\ \E o \in Outcomes :
        /\ fetch' = FetchStep(fetch, o)
        /\ outcomes' = Append(outcomes, o)
    /\ UNCHANGED <<search, db, seq, today, reply, mon, blocked, notified, dialog, wire, txn>>

NextFetch == FetchAttempt

SpecFetch == InitFetch /\ [][NextFetch]_vars

\* ------------------------------------------------ search_range on its own
SearchDays == FirstDay .. LastDay

InitSearch ==
    /\ FetchIdle
    /\ StoreIdle
    /\ MonitorIdle
    /\ DialogIdle
    /\ WireIdle
    /\ TxnIdle
    /\ \E a \in SearchDays, b \in SearchDays : search = SearchStart(a, b)

\* search_range fetches one more day
SearchDay ==
    /\ search.pc = "running"
    /\ \E f \in FetchEnds : search' = SearchStep(search, f)
    /\ UNCHANGED <<fetch, outcomes, db, seq, today, reply, mon, blocked, notified, dialog, wire, txn>>

NextSearch == SearchDay

SpecSearch == InitSearch /\ [][NextSearch]_vars

\* ------------------------------------------------- the texts users can send
RECURSIVE DecText(_)
DecText(n) ==
    IF n < 10 THEN <<DigitChars[n + 1]>>
    ELSE Append(DecText(n \div 10), DigitChars[(n % 10) + 1])

Cmd == <<"/">>
Msg6(o, d, d1, d2, t) == <<Cmd, o, d, d1, d2, t>>
Msg7(o, d, d1, d2, a, t) == <<Cmd, o, d, d1, d2, a, t>>

Mow == <<"m", "o", "w">>
Led == <<"L", "E", "D">>
CodeTexts == {Mow, Led, <<"L", "E">>}

Tomorrow == IsoFormat(FirstDay + 1)
Junk == <<"x">>

\* the date pairs of the /alert messages: a start in the past, a range of one
\* day, of two days, inverted, of MaxRangeDays + 1 and of MaxRangeDays days, a
\* date with a time of day, an unparseable start, an unparseable end
DatePairs ==
    {<<IsoFormat(FirstDay - 1), Tomorrow>>,
     <<IsoFormat(FirstDay), IsoFormat(FirstDay)>>,
     <<IsoFormat(FirstDay), Tomorrow>>,
     <<Tomorrow, IsoFormat(FirstDay)>>,
     <<IsoFormat(FirstDay), IsoFormat(FirstDay + 1 + MaxRangeDays)>>,
     <<Tomorrow, IsoFormat(FirstDay + 1 + MaxRangeDays)>>,
     <<Append(Tomorrow, "T"), Tomorrow>>,
     <<Junk, Tomorrow>>,
     <<Tomorrow, Junk>>}

AdultTexts == {<<"0">>, <<"1">>, DecText(MaxAdults), DecText(MaxAdults + 1), Junk}

PriceText == DecText(PriceAt)
ThresholdTexts ==
    {<<"0">>, <<"-", "5">>, PriceText, DecText(MaxThreshold),
     DecText(MaxThreshold + 1), Junk}

\* /alert messages: a valid one with the codes, the dates, the passenger count
\* or the price varied, in the 7-part and the 6-part form, and a short one
AlertMsgs ==
    {Msg7(o, Led, Tomorrow, Tomorrow, <<"1">>, PriceText) : o \in CodeTexts}
        \cup {Msg7(Mow, <<"L", "E">>, Tomorrow, Tomorrow, <<"1">>, PriceText)}
        \cup {Msg7(Mow, Led, p[1], p[2], <<"1">>, PriceText) : p \in DatePairs}
        \cup {Msg7(Mow, Led, Tomorrow, Tomorrow, a, PriceText) : a \in AdultTexts}
        \cup {Msg6(Mow, Led, Tomorrow, Tomorrow, t) : t \in ThresholdTexts}
        \cup {<<Cmd, Mow, Led>>}

\* the /alert messages sent while the monitor runs
MonitorMsgs ==
    {Msg6(Mow, Led, IsoFormat(d1), IsoFormat(FirstDay + 1), PriceText) :
        d1 \in FirstDay .. FirstDay + 1}

\* /cancel messages
CancelMsgs ==
    {<<Cmd, DecText(i)>> : i \in 1 .. MaxAlerts + 1} \cup {<<Cmd, Junk>>, <<Cmd>>}

\* what alert_cmd and cancel_cmd make of each message, per calendar day
AlertRequests ==
    [parts \in AlertMsgs \cup MonitorMsgs |->
        [day \in FirstDay .. LastDay |-> AlertRequest(parts, day)]]

CancelRequests ==
    [parts \in CancelMsgs |-> CancelRequest(parts)]

\* ------------------------------------------------------------ the handlers
Answer(op, u, parts, ok, error, id, fault) ==
    [op |-> op, user |-> u, parts |-> parts, day |-> today, ok |-> ok, error |-> error,
     id |-> id, fault |-> fault, items |-> <<>>]

\* alert_cmd on message parts from user u, r being the outcome of its checks;
\* add_alert raises when the database fails (dbOk false).  The answer is
\* recorded when observed.
AlertCmdStep(u, parts, r, dbOk, observed) ==
    /\ (r.ok /\ dbOk) => seq < MaxAlerts
    /\ IF r.ok /\ dbOk
       THEN /\ db' = InsertRow(db, seq, u, r)
            /\ seq' = seq + 1
            /\ reply' = IF observed
                        THEN Answer("alert", u, parts, TRUE, "", seq + 1, FALSE)
                        ELSE NoReply
       ELSE /\ UNCHANGED <<db, seq>>
            /\ reply' = IF observed
                        THEN Answer("alert", u, parts, FALSE,
                                    IF r.ok THEN "internal" ELSE r.error, 0, r.ok)
                        ELSE NoReply
    /\ UNCHANGED <<fetch, outcomes, search, today, mon, blocked, notified, dialog, wire, txn>>

AlertCmd(msgs, observed) ==
    /\ reply = NoReply
    /\ \E u \in Users, parts \in msgs :
        \E r \in {AlertRequests[parts][today]} :
            \E dbOk \in (IF r.ok THEN BOOLEAN ELSE {TRUE}) :
                AlertCmdStep(u, parts, r, dbOk, observed)

\* cancel_cmd on message parts from user u, c being the parsed command and d
\* the outcome of delete_alert
CancelCmdStep(u, parts, c, d, dbOk, observed) ==
    /\ db' = IF c.ok THEN d.rows ELSE db
    /\ reply' = IF ~observed THEN NoReply
                ELSE IF c.ok
                THEN Answer("cancel", u, parts, d.ret, "", c.alert_id, ~dbOk)
                ELSE Answer("cancel", u, parts, FALSE, "usage", 0, FALSE)
    /\ UNCHANGED <<fetch, outcomes, search, seq, today, mon, blocked, notified, dialog, wire, txn>>

CancelCmd(observed) ==
    /\ reply = NoReply
    /\ \E u \in Users, parts \in CancelMsgs :
        \E c \in {CancelRequests[parts]} :
            \E dbOk \in (IF c.ok THEN BOOLEAN ELSE {TRUE}) :
                \E d \in {delete_alert(db, c.alert_id, u, dbOk)} :
                    CancelCmdStep(u, parts, c, d, dbOk, observed)

\* alerts_cmd and show_alerts_callback for user u: the alerts they list
ListingStep(op, u, dbOk) ==
    /\ reply' = [Answer(op, u, <<>>, TRUE, "", 0, ~dbOk)
                    EXCEPT !.items = user_alerts(get_alerts(db, dbOk), u)]
    /\ UNCHANGED <<fetch, outcomes, search, db, seq, today, mon, blocked, notified, dialog,
                   wire, txn>>

AlertsCmd ==
    /\ reply = NoReply
    /\ \E u \in Users, dbOk \in BOOLEAN : ListingStep("alerts", u, dbOk)

ShowAlerts ==
    /\ reply = NoReply
    /\ \E u \in Users, dbOk \in BOOLEAN : ListingStep("show_alerts", u, dbOk)

\* the answer has been sent (message.answer returns)
Answered ==
    /\ reply # NoReply
    /\ reply' = NoReply
    /\ UNCHANGED <<fetch, outcomes, search, db, seq, today, mon, blocked, notified, dialog, wire, txn>>

\* cleanup_expired_alerts
Sweep ==
    /\ reply = NoReply
    /\ \E dbOk \in BOOLEAN : db' = cleanup_expired_alerts(db, today, dbOk)
    /\ UNCHANGED <<fetch, outcomes, search, seq, today, reply, mon, blocked, notified, dialog, wire, txn>>

\* midnight passes
Tick ==
    /\ today < LastDay
    /\ today' = today + 1
    /\ UNCHANGED <<fetch, outcomes, search, db, seq, reply, mon, blocked, notified, dialog, wire, txn>>

\* --------------------------------------------------- the store on its own
InitStore ==
    /\ FetchIdle
    /\ SearchIdle
    /\ StoreIdle
    /\ MonitorIdle
    /\ DialogIdle
    /\ WireIdle
    /\ TxnIdle

NextStore ==
    \/ AlertCmd(AlertMsgs, TRUE)
    \/ CancelCmd(TRUE)
    \/ Answered
    \/ Sweep
    \/ Tick

SpecStore == InitStore /\ [][NextStore]_vars

\* ------------------------------------- the store under /alert and the sweep
\* /alert messages that differ in their dates only
SweepMsgs ==
    {Msg7(Mow, Led, p[1], p[2], <<"1">>, PriceText) : p \in DatePairs}

NextSweep ==
    \/ AlertCmd(SweepMsgs, TRUE)
    \/ Answered
    \/ Sweep
    \/ Tick

SpecSweep == InitStore /\ [][NextSweep]_vars

\* ------------------------------------------------ the store and its listings
NextListing ==
    \/ AlertCmd(MonitorMsgs, TRUE)
    \/ CancelCmd(TRUE)
    \/ AlertsCmd
    \/ ShowAlerts
    \/ Answered
    \/ Sweep
    \/ Tick

SpecListing == InitStore /\ [][NextListing]_vars

\* ------------------------------------------------------------ the monitor
\* await cleanup_expired_alerts()
MonSweep ==
    /\ mon.pc = "sweep"
    /\ \E dbOk \in BOOLEAN :
          /\ db' = cleanup_expired_alerts(db, today, dbOk)
          /\ mon' = [mon EXCEPT !.pc = "list", !.cycle_day = today, !.swept = dbOk,
                                !.last = IF dbOk THEN "" ELSE "db_error"]
    /\ UNCHANGED <<fetch, outcomes, search, seq, today, reply, blocked, notified, dialog, wire, txn>>

\* alerts = await get_alerts(), and the entry of the for loop
MonList ==
    /\ mon.pc = "list"
    /\ \E dbOk \in BOOLEAN :
          mon' = [NextAlert([mon EXCEPT !.alerts = get_alerts(db, dbOk), !.i = 0])
                     EXCEPT !.last = IF dbOk THEN "" ELSE "db_error"]
    /\ UNCHANGED <<fetch, outcomes, search, db, seq, today, reply, blocked, notified, dialog, wire, txn>>

\* the head of the loop body: the dates of alerts[i], the two skips, and the
\* entry of search_range
MonCheck ==
    /\ mon.pc = "check"
    /\ \E w \in {AlertWindow(mon.alerts[mon.i], today)} :
          IF ~w.parsed \/ w.expired \/ w.search_start > w.end_date
          THEN /\ mon' = [NextAlert(mon) EXCEPT !.last = "skipped"]
               /\ search' = SearchStart(1, 0)
          ELSE /\ mon' = [mon EXCEPT !.pc = "search", !.last = ""]
               /\ search' = SearchStart(w.search_start, w.end_date)
    /\ UNCHANGED <<fetch, outcomes, db, seq, today, reply, blocked, notified, dialog, wire, txn>>

\* the provider's answers while the monitor runs: the quotes of one day all
\* carry the same price
MonitorEnds ==
    {e \in FetchEnds : \A i \in 1 .. Len(e.result) : e.result[i] = e.result[1]}

\* search_range fetches one more day for alerts[i]
MonSearchDay(ends) ==
    /\ mon.pc = "search"
    /\ search.pc = "running"
    /\ \E f \in ends : search' = SearchStep(search, f)
    /\ UNCHANGED <<fetch, outcomes, db, seq, today, reply, mon, blocked, notified, dialog, wire, txn>>

\* search_range is back: the threshold filter, or the handler of the inner try
MonFilter ==
    /\ mon.pc = "search"
    /\ search.pc # "running"
    /\ wire.monitor = 0
    /\ mon' = IF search.pc = "raised" THEN InnerExcept(mon)
              ELSE [mon EXCEPT !.pc = "notify", !.k = 1,
                               !.matching_flights =
                                   MatchingFlights(search.results,
                                                   mon.alerts[mon.i].threshold)]
    /\ UNCHANGED <<fetch, outcomes, search, db, seq, today, reply, blocked, notified, dialog, wire, txn>>

\* one iteration of `for f in matching_flights[:3]`: bot.send_message, with
\* the sleep after a delivery or the warning after a failure; `logged` says
\* whether the deliveries are kept on record
MonSend(logged) ==
    /\ mon.pc = "notify"
    /\ mon.k <= Len(Selected(mon.matching_flights))
    /\ \E o \in SendOutcomes :
          /\ mon' = [mon EXCEPT !.k = @ + 1, !.last = o, !.sends = @ + 1]
          /\ blocked' = IF o = "forbidden"
                        THEN blocked \cup {mon.alerts[mon.i].id} ELSE blocked
          /\ notified' = IF logged /\ o = "sent"
                         THEN notified \cup {[id |-> mon.alerts[mon.i].id,
                                               quote |-> mon.matching_flights[mon.k]]}
                         ELSE notified
    /\ UNCHANGED <<fetch, outcomes, search, db, seq, today, reply, dialog, wire, txn>>

\* the sleep between two alerts, after the last send for alerts[i]
MonPause ==
    /\ mon.pc = "notify"
    /\ mon.k > Len(Selected(mon.matching_flights))
    /\ mon' = NextAlert(mon)
    /\ search' = SearchStart(1, 0)
    /\ UNCHANGED <<fetch, outcomes, db, seq, today, reply, blocked, notified, dialog, wire, txn>>

\* the body of the inner try raises: search_range or the filter on an answer
\* that is not a list of quotes with numeric prices, or the building of a
\* message
MonFault ==
    /\ \/ mon.pc = "search"
       \/ mon.pc = "notify" /\ mon.k <= Len(Selected(mon.matching_flights))
    /\ mon' = InnerExcept(mon)
    /\ search' = SearchStart(1, 0)
    /\ UNCHANGED <<fetch, outcomes, db, seq, today, reply, blocked, notified, dialog, wire, txn>>

\* the body of the outer try raises outside the inner try (an exception that
\* neither cleanup_expired_alerts nor get_alerts handles, such as MemoryError)
MonCycleFault ==
    /\ mon.pc \in {"sweep", "list"}
    /\ mon' = OuterExcept(mon)
    /\ UNCHANGED <<fetch, outcomes, search, db, seq, today, reply, blocked, notified, dialog, wire, txn>>

\* await asyncio.sleep(extended_interval), then the reset and `continue`
MonBackoff ==
    /\ mon.pc = "backoff"
    /\ mon' = AfterBackoff(mon)
    /\ UNCHANGED <<fetch, outcomes, search, db, seq, today, reply, blocked, notified, dialog, wire, txn>>

\* await asyncio.sleep(POLL_INTERVAL_SECONDS), and the next cycle
MonSleep ==
    /\ mon.pc = "sleep"
    /\ mon' = MonitorStart(mon.consecutive_errors)
    /\ UNCHANGED <<fetch, outcomes, search, db, seq, today, reply, blocked, notified, dialog, wire, txn>>

InitMonitor ==
    /\ FetchIdle
    /\ SearchIdle
    /\ StoreIdle
    /\ MonitorIdle
    /\ DialogIdle
    /\ WireIdle
    /\ TxnIdle

Next ==
    \/ MonSweep
    \/ MonList
    \/ MonCheck
    \/ MonSearchDay(MonitorEnds)
    \/ MonFilter
    \/ MonSend(FALSE)
    \/ MonPause
    \/ MonFault
    \/ MonSleep
    \/ AlertCmd(MonitorMsgs, FALSE)
    \/ CancelCmd(FALSE)
    \/ Tick

Spec == InitMonitor /\ [][Next]_vars

\* ------------------------------------- the monitor over one stored alert
\* the thresholds an alert can carry, from the smallest to the largest
SomeThresholds == {1, PriceAt - 1, PriceAt, PriceAt + 1, MaxThreshold}

\* the /alert messages that stored the alert
FilterMsgs ==
    {Msg6(Mow, Led, IsoFormat(d1), Tomorrow, DecText(t)) :
        d1 \in FirstDay .. FirstDay + 1, t \in SomeThresholds}

\* the store after one of them
StoredAlerts ==
    {InsertRow(<<>>, 0, 1, AlertRequest(parts, FirstDay)) : parts \in FilterMsgs}

InitFilter ==
    /\ FetchIdle
    /\ SearchIdle
    /\ db \in StoredAlerts
    /\ seq = 1
    /\ today = FirstDay
    /\ reply = NoReply
    /\ MonitorIdle
    /\ DialogIdle
    /\ WireIdle
    /\ TxnIdle

NextFilter ==
    \/ MonSweep
    \/ MonList
    \/ MonCheck
    \/ MonSearchDay(FetchEnds)
    \/ MonFilter
    \/ MonSend(FALSE)
    \/ MonPause
    \/ MonSleep

SpecFilter == InitFilter /\ [][NextFilter]_vars

\* ------------------- the monitor over the subscriptions of two users
\* the store after one /alert of user 1 and one of user 2
PairStores ==
    {InsertRow(InsertRow(<<>>, 0, 1, AlertRequest(p1, FirstDay)), 1, 2,
               AlertRequest(p2, FirstDay)) : p1 \in MonitorMsgs, p2 \in MonitorMsgs}

InitPair ==
    /\ FetchIdle
    /\ SearchIdle
    /\ db \in PairStores
    /\ seq = 2
    /\ today = FirstDay
    /\ reply = NoReply
    /\ MonitorIdle
    /\ DialogIdle
    /\ WireIdle
    /\ TxnIdle

NextPair ==
    \/ MonSweep
    \/ MonList
    \/ MonCheck
    \/ MonSearchDay(MonitorEnds)
    \/ MonFilter
    \/ MonSend(FALSE)
    \/ MonPause
    \/ MonFault
    \/ MonSleep
    \/ Tick

SpecPair == InitPair /\ [][NextPair]_vars

\* ------------------- the monitor on its own, with every fault it can meet
\* the store after one /alert of user 1
LoopStores ==
    {InsertRow(<<>>, 0, 1, AlertRequest(parts, FirstDay)) : parts \in MonitorMsgs}

InitLoop ==
    /\ FetchIdle
    /\ SearchIdle
    /\ db \in LoopStores
    /\ seq = 1
    /\ today = FirstDay
    /\ reply = NoReply
    /\ MonitorIdle
    /\ DialogIdle
    /\ WireIdle
    /\ TxnIdle

NextLoop ==
    \/ MonSweep
    \/ MonList
    \/ MonCheck
    \/ MonSearchDay(MonitorEnds)
    \/ MonFilter
    \/ MonSend(TRUE)
    \/ MonPause
    \/ MonFault
    \/ MonCycleFault
    \/ MonBackoff
    \/ MonSleep
    \/ Tick

\* every call the monitor awaits returns or fails: the loop never stops while
\* it has a step to take
SpecLoop == InitLoop /\ [][NextLoop]_vars /\ WF_vars(NextLoop)

\* ------------------------------------------- the store, statement by statement
\* Every store function opens a connection of its own, awaits the execute of
\* one statement and then awaits the commit.  txn holds the transactions that
\* have executed their statement and not yet committed: the statement, and
\* the table and sqlite_sequence as the statement left them.
TxnOps ==
    {[kind |-> "add", user |-> u, alert_id |-> 0, day |-> 0,
      request |-> AlertRequests[parts][FirstDay]] : u \in Users, parts \in MonitorMsgs}
      \cup {[kind |-> "delete", user |-> u, alert_id |-> id, day |-> 0,
              request |-> Rejected("")] : u \in Users, id \in 1 .. MaxAlerts}
      \cup {[kind |-> "cleanup", user |-> 0, alert_id |-> 0, day |-> d,
              request |-> Rejected("")] : d \in FirstDay .. LastDay}

\* the statement of op on a table and its sqlite_sequence
Apply(op, rows, lastId) ==
    CASE op.kind = "add" ->
            [rows |-> InsertRow(rows, lastId, op.user, op.request), seq |-> lastId + 1]
      [] op.kind = "delete" ->
            [rows |-> delete_alert(rows, op.alert_id, op.user, TRUE).rows, seq |-> lastId]
      [] OTHER ->
            [rows |-> cleanup_expired_alerts(rows, op.day, TRUE), seq |-> lastId]

CanWriteUnlocked(open) == TRUE

\* sqlite lets a connection write only while no other connection holds a
\* write transaction
CanWrite(open) == open = {}

\* await db.execute(...) of add_alert, delete_alert or cleanup_expired_alerts
TxnExecute ==
    /\ CanWrite(txn)
    /\ \E op \in TxnOps :
          /\ op.kind = "add" => seq < MaxAlerts
          /\ op.kind = "cleanup" => op.day = today
          /\ txn' = txn \cup {[op |-> op, rows |-> Apply(op, db, seq).rows,
                                seq |-> Apply(op, db, seq).seq]}
    /\ UNCHANGED <<fetch, outcomes, search, db, seq, today, reply, mon, blocked, notified,
                   dialog, wire>>

\* await db.commit()
TxnCommit ==
    /\ \E t \in txn :
          /\ db' = t.rows
          /\ seq' = t.seq
          /\ txn' = txn \ {t}
    /\ UNCHANGED <<fetch, outcomes, search, today, reply, mon, blocked, notified, dialog, wire>>

\* the execute of another connection meets the open transaction: "database
\* is locked", which each store function catches
TxnBusy ==
    /\ txn # {}
    /\ reply = NoReply
    /\ \E op \in TxnOps :
          /\ op.kind = "cleanup" => op.day = today
          /\ reply' = Answer(op.kind, op.user, <<>>, FALSE, "internal", op.alert_id, TRUE)
    /\ UNCHANGED <<fetch, outcomes, search, db, seq, today, mon, blocked, notified, dialog,
                   wire, txn>>

NextTxn ==
    \/ TxnExecute
    \/ TxnCommit
    \/ TxnBusy
    \/ AlertsCmd
    \/ Answered
    \/ Tick

SpecTxn == InitStore /\ [][NextTxn]_vars

\* ---------------------------------------------------- the search dialogue
\* the airports of the keyboard, the texts a user types, the days of the
\* calendar
ButtonCodes == {UpperText(Mow), Led}
DialogDays == FirstDay .. LastDay

\* Callback handlers are registered on the callback data alone, so a button
\* of any keyboard the bot has sent fires its handler whatever the state (a
\* keyboard sent by message.answer stays in its message); the two text
\* handlers are registered on the state.
StartSearch ==
    /\ dialog' = start_search_callback(dialog)
    /\ UNCHANGED <<fetch, outcomes, search, db, seq, today, reply, mon, blocked, notified,
                   wire, txn>>

OriginButton ==
    /\ "orig" \in dialog.seen
    /\ \E code \in ButtonCodes : dialog' = handle_origin_selection(dialog, code)
    /\ UNCHANGED <<fetch, outcomes, search, db, seq, today, reply, mon, blocked, notified,
                   wire, txn>>

OriginText ==
    /\ dialog.state = "origin"
    /\ \E text \in CodeTexts : dialog' = handle_origin_text(dialog, text)
    /\ UNCHANGED <<fetch, outcomes, search, db, seq, today, reply, mon, blocked, notified,
                   wire, txn>>

DestinationButton ==
    /\ "dest" \in dialog.seen
    /\ \E code \in ButtonCodes : dialog' = handle_destination_selection(dialog, code)
    /\ UNCHANGED <<fetch, outcomes, search, db, seq, today, reply, mon, blocked, notified,
                   wire, txn>>

DestinationText ==
    /\ dialog.state = "destination"
    /\ \E text \in CodeTexts : dialog' = handle_destination_text(dialog, text)
    /\ UNCHANGED <<fetch, outcomes, search, db, seq, today, reply, mon, blocked, notified,
                   wire, txn>>

DateButton ==
    /\ "cal" \in dialog.seen
    /\ \E day \in DialogDays : dialog' = handle_date_selection(dialog, day)
    /\ UNCHANGED <<fetch, outcomes, search, db, seq, today, reply, mon, blocked, notified,
                   wire, txn>>

\* the button "done"; the model follows one search of the user at a time
CalendarDone ==
    /\ "done" \in dialog.seen
    /\ dialog.pc = "idle"
    /\ dialog' = handle_calendar_done(dialog)
    /\ UNCHANGED <<fetch, outcomes, search, db, seq, today, reply, mon, blocked, notified,
                   wire, txn>>

CancelSearch ==
    /\ dialog.seen # {}
    /\ dialog' = cancel_search(dialog)
    /\ UNCHANGED <<fetch, outcomes, search, db, seq, today, reply, mon, blocked, notified,
                   wire, txn>>

\* the search_range of handle_calendar_done fetches one more day
DialogSearchDay(ends) ==
    /\ dialog.pc = "searching"
    /\ dialog.search.pc = "running"
    /\ \E f \in ends : dialog' = [dialog EXCEPT !.search = SearchStep(@, f)]
    /\ UNCHANGED <<fetch, outcomes, search, db, seq, today, reply, mon, blocked, notified,
                   wire, txn>>

\* search_range is back: the results, the empty answer or the error
DialogShow ==
    /\ dialog.pc = "searching"
    /\ dialog.search.pc # "running"
    /\ wire.dialog = 0
    /\ dialog' = ShowResults(dialog)
    /\ UNCHANGED <<fetch, outcomes, search, db, seq, today, reply, mon, blocked, notified,
                   wire, txn>>

\* provider answers of one quote a day or none
SingleEnds ==
    {[pc |-> "returned", result |-> <<>>],
     [pc |-> "returned", result |-> <<Quote(PriceAt, NoDate)>>]}

InitDialog ==
    /\ FetchIdle
    /\ SearchIdle
    /\ StoreIdle
    /\ MonitorIdle
    /\ DialogIdle
    /\ WireIdle
    /\ TxnIdle

NextDialog ==
    \/ StartSearch
    \/ OriginButton
    \/ OriginText
    \/ DestinationButton
    \/ DestinationText
    \/ DateButton
    \/ CalendarDone
    \/ CancelSearch
    \/ DialogSearchDay(SingleEnds)
    \/ DialogShow

SpecDialog == InitDialog /\ [][NextDialog]_vars

\* ------------------------------------------------ the ranking of the results
\* the provider's answers: up to MaxQuotes quotes a day, all of one price,
\* which is absent, null, or a number up to and beyond the rank of no price
RankPrices == Prices \cup {NullPrice, NoPriceRank, NoPriceRank + 1}

RankEnds ==
    {[pc |-> "returned", result |-> [j \in 1 .. n |-> Quote(p, NoDate)]] :
        p \in RankPrices, n \in 0 .. MaxQuotes}

\* the dialogue with a route and two dates chosen
InitRank ==
    /\ FetchIdle
    /\ SearchIdle
    /\ StoreIdle
    /\ MonitorIdle
    /\ WireIdle
    /\ TxnIdle
    /\ \E a \in DialogDays, b \in DialogDays :
          /\ a < b
          /\ dialog = [DialogStart EXCEPT !.state = "date1", !.origin = UpperText(Mow),
                                          !.destination = Led,
                                          !.selected_dates = <<a, b>>,
                                          !.seen = {"orig", "dest", "cal", "done"}]

NextRank ==
    \/ CalendarDone
    \/ DialogSearchDay(RankEnds)
    \/ DialogShow

SpecRank == InitRank /\ [][NextRank]_vars

\* ------------------------------------- the two searches and the pacing delay
\* search_range of the monitor calls the provider for one more day, its
\* pacing sleep of the day before being over, and starts the next sleep
PacedMonitorDay(ends) ==
    /\ mon.pc = "search"
    /\ search.pc = "running"
    /\ wire.monitor = 0
    /\ \E f \in ends : search' = SearchStep(search, f)
    /\ wire' = WireCall(wire, "monitor")
    /\ UNCHANGED <<fetch, outcomes, db, seq, today, reply, mon, blocked, notified, dialog, txn>>

\* the same for search_range of handle_calendar_done
PacedDialogDay(ends) ==
    /\ dialog.pc = "searching"
    /\ dialog.search.pc = "running"
    /\ wire.dialog = 0
    /\ \E f \in ends : dialog' = [dialog EXCEPT !.search = SearchStep(@, f)]
    /\ wire' = WireCall(wire, "dialog")
    /\ UNCHANGED <<fetch, outcomes, search, db, seq, today, reply, mon, blocked, notified, txn>>

\* time passes while the coroutines sleep or wait
PaceTick ==
    /\ wire' = WireTime(wire)
    /\ wire' # wire
    /\ UNCHANGED <<fetch, outcomes, search, db, seq, today, reply, mon, blocked, notified,
                   dialog, txn>>

\* one alert in the store, and a user who has chosen a route and two dates
InitPacing ==
    /\ FetchIdle
    /\ SearchIdle
    /\ db \in LoopStores
    /\ seq = 1
    /\ today = FirstDay
    /\ reply = NoReply
    /\ MonitorIdle
    /\ WireIdle
    /\ TxnIdle
    /\ dialog = [DialogStart EXCEPT !.state = "date1", !.origin = UpperText(Mow),
                                    !.destination = Led,
                                    !.selected_dates = <<FirstDay, FirstDay + 1>>,
                                    !.seen = {"orig", "dest", "cal", "done"}]

NextPacing ==
    \/ MonSweep
    \/ MonList
    \/ MonCheck
    \/ PacedMonitorDay(SingleEnds)
    \/ MonFilter
    \/ MonSend(FALSE)
    \/ MonPause
    \/ MonSleep
    \/ CalendarDone
    \/ PacedDialogDay(SingleEnds)
    \/ DialogShow
    \/ PaceTick

SpecPacing == InitPacing /\ [][NextPacing]_vars

\* -------------------------------- the monitor while users create and cancel
\* the /alert message sent while a cycle runs
CycleMsgs ==
    {Msg6(Mow, Led, IsoFormat(FirstDay), IsoFormat(FirstDay + 1), PriceText)}

NextCycle ==
    \/ MonSweep
    \/ MonList
    \/ MonCheck
    \/ MonSearchDay(SingleEnds)
    \/ MonFilter
    \/ MonSend(FALSE)
    \/ MonPause
    \/ MonSleep
    \/ AlertCmd(CycleMsgs, FALSE)
    \/ CancelCmd(FALSE)

SpecCycle == InitMonitor /\ [][NextCycle]_vars

\* ------------------- the monitor, its faults, the commands and the calendar
\* the /alert message of a search for tomorrow's flights
FrameMsgs ==
    {Msg6(Mow, Led, IsoFormat(FirstDay + 1), IsoFormat(FirstDay + 1), PriceText)}

\* the bot is started on the day before the last
InitFrame ==
    /\ FetchIdle
    /\ SearchIdle
    /\ db = <<>>
    /\ seq = 0
    /\ today = FirstDay + 1
    /\ reply = NoReply
    /\ MonitorIdle
    /\ DialogIdle
    /\ WireIdle
    /\ TxnIdle

NextFrame ==
    \/ MonSweep
    \/ MonList
    \/ MonCheck
    \/ MonSearchDay(SingleEnds)
    \/ MonFilter
    \/ MonSend(FALSE)
    \/ MonPause
    \/ MonFault
    \/ MonSleep
    \/ AlertCmd(FrameMsgs, FALSE)
    \/ CancelCmd(FALSE)
    \/ Tick

SpecFrame == InitFrame /\ [][NextFrame]_vars

\* ================================================================ claims
AllOutcomes(P(_)) == \A i \in 1 .. Len(outcomes) : P(outcomes[i])

\* C1: whatever the outcomes of its attempts (200, 429, another status, a
\* timeout, any other exception), fetch_flights makes at most Retries attempts,
\* has returned once Retries attempts are made, returns a sequence of quotes
\* and never raises.
C1_FetchNeverRaises ==
    /\ fetch.pc \in {"running", "returned"}
    /\ fetch.gets = Len(outcomes)
    /\ fetch.gets <= Retries
    /\ fetch.gets = Retries => fetch.pc = "returned"
    /\ fetch.pc = "returned" => fetch.result \in FlightLists

C1_Witness ==
    /\ fetch.pc = "returned"
    /\ fetch.gets = Retries
    /\ outcomes[1] = OtherError
    /\ outcomes[2] = HttpStatus(429)
    /\ outcomes[3] = Timeout

IsTimeout(o) == o = Timeout

\* C2: when every attempt times out, fetch_flights makes exactly Retries
\* attempts and then returns the empty sequence, raising nothing.
C2_RetryCeiling ==
    AllOutcomes(IsTimeout) =>
        /\ fetch.pc \in {"running", "returned"}
        /\ fetch.pc = "returned" <=> Len(outcomes) = Retries
        /\ fetch.pc = "returned" => fetch.gets = Retries /\ fetch.result = <<>>

C2_Witness ==
    /\ fetch.pc = "returned"
    /\ Len(outcomes) = Retries
    /\ AllOutcomes(IsTimeout)

Is5xx(o) == o.kind = "http" /\ o.status >= 500

\* C3: a 5xx response is retried like a timeout or a 429, so after a 5xx on an
\* attempt before the last the call is still running.
C3_Retries5xx ==
    (outcomes # <<>> /\ Is5xx(outcomes[Len(outcomes)]) /\ Len(outcomes) < Retries)
        => fetch.pc = "running"

\* the days start .. end as date strings, in ascending order
DayStrings(start, end) == [i \in 1 .. (end - start + 1) |-> IsoFormat(start + i - 1)]

SumTo(counts, n) ==
    LET RECURSIVE Sum(_)
        Sum(k) == IF k = 0 THEN 0 ELSE counts[k] + Sum(k - 1)
    IN  Sum(n)

\* the index of the call that produced the quote at position j of the results
CallOf(counts, j) == CHOOSE k \in 1 .. Len(counts) : SumTo(counts, k - 1) < j /\ j <= SumTo(counts, k)

\* C4: for start_date <= end_date, search_range calls fetch_flights exactly
\* (end_date - start_date).days + 1 times, once per day in ascending order, and
\* every returned quote carries the search_date of the call that produced it.
C4_RangeExpansion ==
    (search.start_date <= search.end_date /\ search.pc = "returned") =>
        /\ Len(search.calls) = search.end_date - search.start_date + 1
        /\ search.calls = DayStrings(search.start_date, search.end_date)
        /\ Len(search.results) = SumTo(search.counts, Len(search.counts))
        /\ \A j \in 1 .. Len(search.results) :
              search.results[j].search_date = search.calls[CallOf(search.counts, j)]

C4_Witness ==
    /\ search.pc = "returned"
    /\ search.end_date - search.start_date = 2
    /\ search.counts = <<1, 0, 2>>

\* C5: search_range with start_date > end_date returns the empty sequence,
\* calls the provider zero times and does not raise.
C5_InvertedRange ==
    search.start_date > search.end_date =>
        /\ search.pc = "returned"
        /\ search.results = <<>>
        /\ search.calls = <<>>

C5_Witness ==
    /\ search.start_date = FirstDay + 2
    /\ search.end_date = FirstDay
    /\ search.pc = "returned"

\* the quotes of the search under way that the monitor kept for alerts[i]
Kept(f) == \E k \in 1 .. Len(mon.matching_flights) : mon.matching_flights[k] = f

\* C6: once the monitor has filtered the quotes found for a subscription, no
\* quote without a price is among the matches, whatever the (positive)
\* threshold of the subscription, and every quote whose price equals the
\* threshold is among them (the comparison is <=).
C6_ThresholdFilter ==
    mon.pc = "notify" =>
        \A j \in 1 .. Len(search.results) :
            /\ search.results[j].price = NoPrice => ~Kept(search.results[j])
            /\ search.results[j].price = mon.alerts[mon.i].threshold
                  => Kept(search.results[j])

C6_Witness ==
    /\ mon.pc = "notify"
    /\ Len(search.results) = 2
    /\ search.results[1].price = NoPrice
    /\ search.results[2].price = mon.alerts[mon.i].threshold
    /\ Len(mon.matching_flights) = 1

\* C7: once the monitor has filtered the quotes found for a subscription, the
\* matches are exactly the quotes whose price is present and <= the threshold,
\* price 0 included.
C7_MatchIffPresentAndWithin ==
    mon.pc = "notify" =>
        mon.matching_flights =
            SelectSeq(search.results,
                      LAMBDA f : f.price # NoPrice
                                 /\ f.price <= mon.alerts[mon.i].threshold)

HasRow(rows, id) == \E i \in 1 .. Len(rows) : rows[i].id = id
Owns(rows, id, u) == \E i \in 1 .. Len(rows) : rows[i].id = id /\ rows[i].user_id = u
WithoutId(rows, id) == SelectSeq(rows, LAMBDA r : r.id # id)

C8_CancelStep ==
    (reply = NoReply /\ reply'.op = "cancel") =>
        /\ reply'.ok <=> (reply'.error = "" /\ ~reply'.fault
                            /\ Owns(db, reply'.id, reply'.user))
        /\ reply'.ok => db' = WithoutId(db, reply'.id) /\ db' # db
        /\ ~reply'.ok => db' = db
        /\ \A i \in 1 .. Len(db) : db[i].user_id # reply'.user => HasRow(db', db[i].id)

\* C8: delete_alert(alert_id, user_id), run by /cancel, removes the record with
\* that id if and only if the record's stored owner is user_id (and the database
\* executes the statement), and returns True exactly in that case; with a wrong
\* owner, an unknown id or a failing database the store is unchanged and the
\* call returns False.  No user's /cancel ever removes another user's record.
C8_DeleteByOwnerOnly == [][C8_CancelStep]_vars

C8_Witness ==
    /\ reply.op = "cancel"
    /\ reply.ok
    /\ ~HasRow(db, reply.id)
    /\ \E i \in 1 .. Len(db) : db[i].user_id # reply.user

\* what /alert requires of its message, on the day it is handled
ValidAlert(parts, day) ==
    /\ Len(parts) \in {6, 7}
    /\ Len(parts[2]) = 3 /\ Len(parts[3]) = 3
    /\ UpperText(parts[2]) # UpperText(parts[3])
    /\ IsoParse(parts[4]).ok /\ IsoParse(parts[5]).ok
    /\ IsoParse(parts[4]).day >= day
    /\ IsoParse(parts[5]).day >= IsoParse(parts[4]).day
    /\ IsoParse(parts[5]).day - IsoParse(parts[4]).day <= 30
    /\ Len(parts) = 7 =>
          /\ IntParse(parts[6]).ok
          /\ 1 <= IntParse(parts[6]).val /\ IntParse(parts[6]).val <= 9
    /\ IntParse(parts[Len(parts)]).ok
    /\ 0 < IntParse(parts[Len(parts)]).val
    /\ IntParse(parts[Len(parts)]).val <= 1000000

C9_AlertStep ==
    (reply = NoReply /\ reply'.op = "alert") =>
        /\ reply'.ok <=> db' # db
        /\ reply'.ok => ValidAlert(reply'.parts, reply'.day)
        /\ reply'.ok =>
              /\ Len(db') = Len(db) + 1
              /\ SubSeq(db', 1, Len(db)) = db
              /\ db'[Len(db')].user_id = reply'.user
              /\ db'[Len(db')].start_date = IsoFormat(IsoParse(reply'.parts[4]).day)
              /\ db'[Len(db')].end_date = IsoFormat(IsoParse(reply'.parts[5]).day)
        /\ ~ValidAlert(reply'.parts, reply'.day) => db' = db /\ seq' = seq

C9_Rows ==
    \A i \in 1 .. Len(db) :
        /\ IsoParse(db[i].start_date).ok /\ IsoParse(db[i].end_date).ok
        /\ IsoParse(db[i].start_date).day <= IsoParse(db[i].end_date).day
        /\ db[i].threshold > 0
        /\ db[i].adults >= 1

\* C9: /alert inserts a record only if every validation passes (3-character
\* codes, origin # destination, parseable dates, start_date >= today,
\* end_date >= start_date, range <= 30 days, 1 <= adults <= 9,
\* 0 < threshold <= 1000000); on a validation failure the store is unchanged;
\* so every stored record has start_date <= end_date, threshold > 0 and
\* adults >= 1 in every reachable state.
C9_OnlyValidAlertsStored == [][C9_AlertStep]_vars /\ []C9_Rows

C9_Witness ==
    /\ reply.op = "alert"
    /\ reply.ok
    /\ HasRow(db, reply.id)
    /\ IsoParse(reply.parts[5]).day - IsoParse(reply.parts[4]).day = MaxRangeDays

\* C10: a subscription for which a send failed for good in some cycle is gone
\* from the store when that cycle ends, and is not in the listing of any later
\* cycle.
C10_BlockedDeleted ==
    /\ mon.pc \in {"sleep", "sweep", "list"} =>
          \A j \in 1 .. Len(db) : db[j].id \notin blocked
    /\ (mon.pc = "check" /\ mon.i = 1) =>
          \A j \in 1 .. Len(mon.alerts) : mon.alerts[j].id \notin blocked

\* a step in which the monitor calls bot.send_message
SendStep == mon.pc = "notify" /\ mon'.pc = "notify" /\ mon'.sends = mon.sends + 1

\* C11: a send that fails is retried: the next call of bot.send_message is for
\* the same quote again, until 3 attempts have been made for it.
C11_FailedSendRetried ==
    [][(SendStep /\ mon'.last = "transient") => mon'.k = mon.k]_vars

\* C12: a quote (search day and price) delivered for a subscription in one
\* cycle is not delivered for it again in a later cycle: when a quote is
\* delivered that is the first of its kind among the matches of this cycle,
\* no earlier delivery of it for the subscription is on record.
C12_NotifiedOnce ==
    [][(/\ SendStep
        /\ mon'.last = "sent"
        /\ \A j \in 1 .. mon.k - 1 : mon.matching_flights[j] # mon.matching_flights[mon.k])
          => [id |-> mon.alerts[mon.i].id, quote |-> mon.matching_flights[mon.k]]
                \notin notified]_vars

\* C13: in a cycle the monitor calls bot.send_message at most 3 times for a
\* subscription, however many quotes match its threshold.
C13_NotifyCap ==
    mon.sends <= MaxNotify

C13_Witness ==
    /\ mon.pc = "notify"
    /\ Len(mon.matching_flights) > MaxNotify
    /\ mon.sends = MaxNotify
    /\ mon.k > MaxNotify

\* a step in which the body of the inner try raises while alerts[i] is processed
InnerFaultStep == mon.pc \in {"search", "notify"} /\ mon'.last = "raised"

\* C14: an exception raised while subscription i is processed does not end the
\* cycle: the monitor goes on with subscription i + 1 of the same listing (or,
\* after the last one, ends the cycle the normal way), the failure counter is
\* not incremented, and the per-subscription loop is only ever left after the
\* last subscription of the listing.
C14_FaultContained ==
    [][/\ InnerFaultStep =>
            IF mon.i < Len(mon.alerts)
            THEN /\ mon'.pc = "check"
                 /\ mon'.i = mon.i + 1
                 /\ mon'.alerts = mon.alerts
                 /\ mon'.consecutive_errors = mon.consecutive_errors
            ELSE /\ mon'.pc = "sleep"
                 /\ mon'.consecutive_errors = 0
       /\ (mon.pc \in {"check", "search", "notify"}
             /\ mon'.pc \notin {"check", "search", "notify"})
            => mon.i = Len(mon.alerts) /\ mon'.pc = "sleep"]_vars

C14_Witness ==
    /\ mon.pc = "check"
    /\ mon.i = 2
    /\ Len(mon.alerts) = 2
    /\ mon.last = "raised"

Sleeping == mon.pc \in {"sleep", "backoff"}

\* C15: the monitor never leaves its loop: whatever fails in the sweep, the
\* listing, a search, the filter or a send, it is always at one of the steps of
\* the loop (no exception escapes monitor_alerts), it sleeps again and again,
\* and every sleep is followed by a new sweep.
C15_LoopNeverEnds ==
    /\ [](mon.pc \in {"sweep", "list", "check", "search", "notify", "sleep", "backoff"})
    /\ []<>Sleeping
    /\ [](Sleeping => <>(mon.pc = "sweep"))

C15_Witness ==
    /\ mon.pc = "sweep"
    /\ mon.consecutive_errors > 0
    /\ blocked # {}
    /\ notified # {}

\* a step in which the body of the outer try raises outside the inner try
CycleFaultStep == mon.pc \in {"sweep", "list"} /\ mon'.last = "cycle_error"

C16_CycleStep ==
    /\ CycleFaultStep =>
          IF mon.consecutive_errors + 1 < max_consecutive_errors
          THEN /\ mon'.pc = "sleep"
               /\ mon'.consecutive_errors = mon.consecutive_errors + 1
          ELSE /\ mon'.pc = "backoff"
               /\ mon'.consecutive_errors = max_consecutive_errors
    /\ (mon.pc = "backoff" /\ mon' # mon) =>
          (mon'.pc = "sweep" /\ mon'.consecutive_errors = 0)
    /\ (mon.pc = "sleep" /\ mon' # mon) =>
          (mon'.pc = "sweep" /\ mon'.consecutive_errors = mon.consecutive_errors)

\* C16: cycle-level failures 1 to 4 of a run are each counted and followed by
\* the normal sleep; the 5th is followed by the extended sleep instead, after
\* which the counter is 0 and the next cycle starts at once, without a normal
\* sleep on top; the extended sleep is only ever taken with 5 failures counted.
C16_ExtendedBackoff ==
    /\ [][C16_CycleStep]_vars
    /\ [](mon.pc = "backoff" => mon.consecutive_errors = max_consecutive_errors)
    /\ [](mon.pc = "sleep" => mon.consecutive_errors < max_consecutive_errors)

C16_Witness ==
    /\ mon.pc = "backoff"
    /\ mon.last = "cycle_error"

\* C17: a cycle whose sweep or whose listing met a storage failure ends with
\* the failure counted: consecutive_errors is one more than it was.
C17_StorageFaultCounted ==
    [][(/\ ~Sleeping
        /\ Sleeping'
        /\ \/ mon.cycle_day # 0 /\ ~mon.swept
           \/ mon.pc = "list" /\ mon'.last = "db_error")
          => mon'.consecutive_errors = mon.consecutive_errors + 1]_vars

DayOf(text) == IsoParse(text).day

\* the step that takes up alerts[i]: its dates, the skips, the call of
\* search_range
C18_CheckStep ==
    (mon.pc = "check" /\ mon' # mon) =>
        LET alert == mon.alerts[mon.i]
            from == IF DayOf(alert.start_date) >= today
                    THEN DayOf(alert.start_date) ELSE today
        IN  IF DayOf(alert.end_date) < today \/ from > DayOf(alert.end_date)
            THEN /\ mon'.pc # "search"
                 /\ mon'.last = "skipped"
                 /\ search'.calls = <<>>
                 /\ db' = db
            ELSE /\ mon'.pc = "search"
                 /\ search'.start_date = from
                 /\ search'.end_date = DayOf(alert.end_date)
                 /\ search'.calls = <<>>

\* C18: the search the monitor issues for a subscription covers the days from
\* max(start_date, today) to end_date, today being the day read when the
\* subscription is taken up: one provider call per day of that window, in
\* order, and none for any other day; for a subscription with end_date < today
\* or with an inverted window no search is issued, and the step that skips it
\* leaves the store as it is.
C18_SearchWindow ==
    /\ [][C18_CheckStep]_vars
    /\ [](mon.pc \in {"search", "notify"} =>
            /\ search.start_date <= search.end_date
            /\ search.start_date >= mon.cycle_day
            /\ search.calls = DayStrings(search.start_date, search.current_date - 1)
            /\ search.pc = "returned" => search.current_date = search.end_date + 1)
    /\ [](mon.pc \notin {"search", "notify"} => search.calls = <<>>)

C18_Witness ==
    /\ mon.pc = "notify"
    /\ DayOf(mon.alerts[mon.i].start_date) < today
    /\ search.start_date = today
    /\ search.calls = <<IsoFormat(today)>>

\* the order of the steps of a cycle
CycleOrder ==
    {<<"sweep", "list">>, <<"list", "check">>, <<"list", "sleep">>,
     <<"check", "check">>, <<"check", "search">>, <<"check", "sleep">>,
     <<"search", "search">>, <<"search", "notify">>, <<"search", "check">>,
     <<"search", "sleep">>, <<"notify", "notify">>, <<"notify", "check">>,
     <<"notify", "sleep">>, <<"sleep", "sweep">>,
     <<"sweep", "sleep">>, <<"sweep", "backoff">>, <<"list", "backoff">>,
     <<"backoff", "sweep">>}

\* C19: a cycle sweeps, then lists, then checks the listed subscriptions one
\* by one, then sleeps (an exception in the outer try cuts it short to the
\* sleep).  The sweep is over before the listing is taken: once its DELETE has
\* run, no subscription whose end_date is before the day the cycle began is in
\* the store when the listing is taken, nor in the listing; and, whether it
\* has run or not, no search is issued in the cycle for such a subscription.
C19_SweepBeforeListing ==
    /\ [][mon' # mon => <<mon.pc, mon'.pc>> \in CycleOrder]_vars
    /\ [](mon.pc # "sweep" /\ ~Sleeping => mon.cycle_day \in FirstDay .. today)
    /\ []((mon.pc = "list" /\ mon.swept) =>
            \A j \in 1 .. Len(db) : DayOf(db[j].end_date) >= mon.cycle_day)
    /\ []((mon.pc \in {"check", "search", "notify"} /\ mon.swept) =>
            \A j \in 1 .. Len(mon.alerts) :
                DayOf(mon.alerts[j].end_date) >= mon.cycle_day)
    /\ [](mon.pc \in {"search", "notify"} =>
            /\ DayOf(mon.alerts[mon.i].end_date) >= mon.cycle_day
            /\ search.end_date = DayOf(mon.alerts[mon.i].end_date))

C19_Witness ==
    /\ mon.pc = "list"
    /\ mon.swept
    /\ mon.cycle_day = LastDay
    /\ db = <<>>

\* C20: for every day taken as today, cleanup_expired_alerts deletes exactly
\* the records whose end_date is before that day (a record whose end_date is
\* that day stays), and running it again on the result changes nothing.
C20_SweepIdempotent ==
    \A day \in FirstDay .. LastDay + 1 :
        LET once == cleanup_expired_alerts(db, day, TRUE)
        IN  /\ once = SelectSeq(db, LAMBDA r : DayOf(r.end_date) >= day)
            /\ cleanup_expired_alerts(once, day, TRUE) = once
            /\ cleanup_expired_alerts(once, day, FALSE) = once

C20_Witness ==
    /\ reply = NoReply
    /\ \E j \in 1 .. Len(db) : DayOf(db[j].end_date) < today
    /\ \E j \in 1 .. Len(db) : DayOf(db[j].end_date) = today

\* the outcomes after which fetch_flights tries again
IsRetried(o) == o \in {HttpStatus(429), Timeout, OtherError}

\* the waits of a call all of whose n attempts were answered 429
WaitsOf429(n) == FetchRun(FetchStart, [i \in 1 .. n |-> HttpStatus(429)]).waits

\* C28: a call whose attempts ended in 429s, timeouts or transport failures
\* has made one attempt per outcome and has taken the waits that the same
\* number of 429 answers gives (1, 2, 4 seconds over three attempts), and after
\* Retries such attempts it has returned the empty sequence.
C28_SameBackoffSchedule ==
    AllOutcomes(IsRetried) =>
        /\ fetch.gets = Len(outcomes)
        /\ fetch.waits = WaitsOf429(Len(outcomes))
        /\ Len(outcomes) = Retries => fetch.pc = "returned" /\ fetch.result = <<>>

RowsOf(rows) == {rows[j] : j \in 1 .. Len(rows)}

\* the ids of the live records are distinct, ascend in insertion order and
\* are at most the largest id ever assigned
C24_IdsInOrder ==
    /\ \A j \in 1 .. Len(db) : db[j].id \in 1 .. seq
    /\ \A j \in 1 .. Len(db), k \in 1 .. Len(db) : j < k => db[j].id < db[k].id

\* in a step, a record whose id had been assigned before the step is a
\* record of the store before the step, unchanged; any other record has an id
\* larger than every id assigned before
C24_IdStep ==
    /\ seq' >= seq
    /\ \A r \in RowsOf(db') : IF r.id <= seq THEN r \in RowsOf(db) ELSE r.id = seq'

\* C24: ids are unique among live records and ascend in the order of
\* creation; the id of a live record never changes; and an id once assigned,
\* whether its record is still live or was deleted by its owner or by the
\* sweep, is never given to a later subscription.
C24_IdsNeverReused == []C24_IdsInOrder /\ [][C24_IdStep]_vars

C24_Witness ==
    /\ reply.op = "alert"
    /\ reply.ok
    /\ reply.id = 2
    /\ Len(db) = 1
    /\ db[1].id = 2

\* C22: in a call of search_range every call of fetch_flights is followed by a
\* pacing sleep before the next one, whether it returned quotes or none, so
\* the calls and the sleeps alternate and there are as many sleeps as calls;
\* when the call returns that is the number of days of the range.
C22_PacingSleepPerDay ==
    /\ search.sleeps = Len(search.calls)
    /\ Len(search.trace) = 2 * Len(search.calls)
    /\ \A j \in 1 .. Len(search.trace) :
          search.trace[j] = IF j % 2 = 1 THEN "fetch" ELSE "sleep"
    /\ search.pc = "returned" =>
          search.sleeps = Max(search.end_date - search.start_date + 1, 0)

C22_Witness ==
    /\ search.pc = "returned"
    /\ Len(search.calls) = 2
    /\ search.counts[1] = 0
    /\ search.counts[2] > 0
    /\ search.sleeps = 2

\* C29: handle_calendar_done calls search_range only with an origin and a
\* destination that are both stored and differ, whatever buttons were
\* pressed and texts sent before.
C29_SearchHasRoute ==
    dialog.pc = "searching" =>
        /\ dialog.route[1] # NoCode
        /\ dialog.route[2] # NoCode
        /\ dialog.route[1] # dialog.route[2]

\* the rank the results are ordered by: the price, or 999999 without one
RankOf(f) == IF f.price \in {NoPrice, NullPrice} THEN NoPriceRank ELSE f.price

CountIn(flights, f) == Cardinality({j \in 1 .. Len(flights) : flights[j] = f})

\* C26: when a search that found n > 0 quotes is over, min(5, n) of them are
\* shown, in ascending order of rank (the price, or 999999 for a quote with no
\* price), each shown quote is one of those found, and no quote left out has
\* a lower rank than a quote shown.
C26_FiveCheapestShown ==
    (dialog.pc = "idle" /\ dialog.search.pc = "returned" /\ dialog.search.results # <<>>) =>
        /\ dialog.answer = "results"
        /\ Len(dialog.shown) = Min(MaxShown, Len(dialog.search.results))
        /\ \A j \in 1 .. Len(dialog.shown) - 1 :
              RankOf(dialog.shown[j]) <= RankOf(dialog.shown[j + 1])
        /\ \A j \in 1 .. Len(dialog.search.results) :
              LET f == dialog.search.results[j]
              IN  /\ CountIn(dialog.shown, f) <= CountIn(dialog.search.results, f)
                  /\ CountIn(dialog.shown, f) < CountIn(dialog.search.results, f)
                        => \A k \in 1 .. Len(dialog.shown) :
                               RankOf(dialog.shown[k]) <= RankOf(f)
        /\ \A k \in 1 .. Len(dialog.shown) :
              CountIn(dialog.search.results, dialog.shown[k]) > 0

\* C21: no call of the provider is made sooner than the pacing delay after
\* the call before it, whichever of the two coroutines made either call.
C21_CallsPaced == ~wire.early

\* a step of alerts_cmd or show_alerts_callback
ListingAnswered == reply = NoReply /\ reply'.op \in {"alerts", "show_alerts"}

\* the alerts of user u in the store
OwnedBy(rows, u) == SelectSeq(rows, LAMBDA r : r.user_id = u)

\* C27: when the SELECT of get_alerts runs, /alerts and the button "my
\* alerts" list for a user exactly the rows of the store that the user owns,
\* in the order of the store; and what they list is the same as for a store
\* holding the rows of that user alone.
C27_ListingOwnRowsOnly ==
    /\ [][(ListingAnswered /\ ~reply'.fault) => reply'.items = OwnedBy(db, reply'.user)]_vars
    /\ [](\A u \in Users :
            user_alerts(get_alerts(db, TRUE), u)
                = user_alerts(get_alerts(OwnedBy(db, u), TRUE), u))

C27_Witness ==
    /\ reply.op = "show_alerts"
    /\ ~reply.fault
    /\ Len(db) = 2
    /\ db[1].user_id # db[2].user_id
    /\ Len(reply.items) = 1
    /\ reply.items[1].user_id = reply.user

PricedWithin ==
    SelectSeq(search.results,
              LAMBDA f : f.price # NoPrice /\ f.price <= mon.alerts[mon.i].threshold)

C25_SendStep ==
    SendStep =>
        /\ mon.sends < Len(PricedWithin)
        /\ mon.matching_flights[mon.k] = PricedWithin[mon.sends + 1]

\* C25: in a cycle the calls of bot.send_message for a subscription are for
\* the first min(3, k) of the k quotes found for it whose price is at or below
\* its threshold, one call per quote, in search order; so with exactly one
\* such quote there is exactly one call, for that quote.
C25_FirstThreeInSearchOrder ==
    /\ [][C25_SendStep]_vars
    /\ []((mon.pc = "notify" /\ mon.k > Len(Selected(mon.matching_flights)))
            => mon.sends = Min(MaxNotify, Len(PricedWithin)))

\* the steps of a cycle that work on the listing
CycleBody == {"check", "search", "notify"}

\* get_alerts of the monitor has returned the rows of its SELECT
C30_ListingStep ==
    (mon.pc = "list" /\ mon'.pc \in {"check", "sleep"} /\ mon'.last # "db_error") =>
        IF db = <<>> THEN mon'.pc = "sleep"
        ELSE mon'.pc = "check" /\ mon'.alerts = db /\ mon'.i = 1

C30_BodyStep ==
    (mon.pc \in CycleBody /\ mon'.pc \in CycleBody) =>
        /\ mon'.alerts = mon.alerts
        /\ mon'.i \in {mon.i, mon.i + 1}

\* C30: the listing of a cycle is the store as it is when get_alerts runs,
\* so it holds no subscription deleted before and every subscription created
\* before; until the cycle ends the monitor works through that listing and
\* nothing else, whatever is deleted from or added to the store meanwhile:
\* what it searches and sends for is an entry of the listing.
C30_ListingSnapshot ==
    /\ [][C30_ListingStep]_vars
    /\ [][C30_BodyStep]_vars
    /\ [](mon.pc \in CycleBody => mon.i \in 1 .. Len(mon.alerts))
    /\ [](mon.pc \in {"search", "notify"} =>
            search.end_date = DayOf(mon.alerts[mon.i].end_date))

C30_Witness ==
    /\ mon.pc = "notify"
    /\ mon.sends > 0
    /\ Len(mon.alerts) = 1
    /\ Len(db) = 1
    /\ db[1].id # mon.alerts[1].id

\* a step that ends a cycle after its per-subscription loop, with no exception
\* caught by the outer try
CycleCompletes ==
    /\ mon.pc \in {"list", "check", "search", "notify"}
    /\ mon'.pc = "sleep"
    /\ mon'.last # "cycle_error"

\* C31: consecutive_errors is always in 0 .. max_consecutive_errors, it is
\* below max_consecutive_errors whenever a cycle starts, and every cycle that
\* gets through its per-subscription loop without an exception reaching the
\* outer try ends with consecutive_errors = 0, also when subscriptions of the
\* cycle raised inside the inner try or had sends that failed.
C31_FailureCounter ==
    /\ [](mon.consecutive_errors \in 0 .. max_consecutive_errors)
    /\ [](mon.pc = "sweep" => mon.consecutive_errors < max_consecutive_errors)
    /\ [][CycleCompletes => mon'.consecutive_errors = 0]_vars

C31_Witness ==
    /\ mon.pc = "sleep"
    /\ mon.last = "raised"
    /\ mon.consecutive_errors = 0
    /\ blocked # {}

\* the responses with status 200, and those of them whose body parsed
Is200(o) == o.status = 200
IsParsed200(o) == o.kind = "http" /\ o.status = 200

\* a response with a status other than 200 and 429
IsErrorStatus(o) == o.kind = "http" /\ o.status \notin {200, 429}

\* an attempt that Ok holds of is the last one, and its data is returned
ReturnsFirst(Ok(_)) ==
    \A i \in 1 .. Len(outcomes) :
        Ok(outcomes[i]) =>
            /\ i = Len(outcomes)
            /\ fetch.pc = "returned"
            /\ fetch.result = outcomes[i].data

\* an error status ends the call at once with the empty sequence, and every
\* attempt before the last was a 429, a timeout or an exception
ErrorStatusEnds ==
    /\ \A i \in 1 .. Len(outcomes) :
            IsErrorStatus(outcomes[i]) =>
                /\ i = Len(outcomes)
                /\ fetch.pc = "returned"
                /\ fetch.result = <<>>
    /\ \A i \in 1 .. Len(outcomes) - 1 :
            \/ outcomes[i] = HttpStatus(429)
            \/ outcomes[i].kind \in {"timeout", "exception"}

Inserted ==
    /\ Len(db') = Len(db) + 1
    /\ db' = Append(db, db'[Len(db')])
    /\ ~HasRow(db, db'[Len(db')].id)
    /\ mon' = mon

\* delete_alert has removed one record, for a user who owns it
Deleted ==
    /\ \E j \in 1 .. Len(db) :
          /\ db[j].user_id \in Users
          /\ db' = WithoutId(db, db[j].id)
    /\ mon' = mon

\* cleanup_expired_alerts has removed the records that ended before today
Swept ==
    /\ mon.pc = "sweep"
    /\ mon'.pc = "list"
    /\ db' = SelectSeq(db, LAMBDA r : DayOf(r.end_date) >= today)

C33_FrameStep ==
    /\ db' # db => (Inserted \/ Deleted \/ Swept)
    /\ \A r \in RowsOf(db') : HasRow(db, r.id) => r \in RowsOf(db)
    /\ (mon.pc \in CycleBody /\ mon' # mon) => db' = db

\* C33: a record of the store never changes: a record found in the store
\* after a step under an id the store held before is that same record, field
\* by field.  The store changes only by add_alert appending a record under a
\* new id, by delete_alert removing one record, and by cleanup_expired_alerts
\* removing the records that ended before today; what the monitor does for a
\* subscription (the skip, the search, the filter, a send that succeeds or
\* fails, a fault) leaves the store as it is.
C33_RecordsImmutable == [][C33_FrameStep]_vars

C33_Witness ==
    /\ mon.pc = "notify"
    /\ mon.sends > 0
    /\ blocked # {}
    /\ seq = MaxAlerts
    /\ db # <<>>
    /\ Len(db) < seq
    /\ mon.swept

====
